---- MODULE Spec2Model ----
(***************************************************************************)
(* Model of backend/server.py: the options analytics service.              *)
(*                                                                         *)
(* JSON objects (Python dicts) are TLA+ records: a key is present iff it   *)
(* is in the DOMAIN of the record, the empty dict and the empty list are   *)
(* both << >>, and a JSON null where an object is expected (Python None)   *)
(* is the record None.  Numbers                                            *)
(* are exact: integers for the exposure figures (greeks and strikes are    *)
(* given in integer ticks) and normalised rationals <<n, d>> for prices    *)
(* and P&L, where the program computes in binary floating point.           *)
(***************************************************************************)
EXTENDS Integers, Sequences, FiniteSets, TLC

VARIABLES
    request,           \* the request being served, with the upstream payload fetched for it
    response,          \* the JSON body the handler returns
    pc,                \* "pending" until the handler has answered, then "done"
    options_list,      \* calculate_gex/calculate_dex: the contracts handed to the aggregation
    position,          \* run_backtest, Covered Call: the shares bought and the cash left
    backtest_results,  \* db.backtest_results
    trades             \* db.trades

vars == <<request, response, pc, options_list, position, backtest_results, trades>>

(***************************************************************************)
(* Python values                                                           *)
(***************************************************************************)
None == [py_none |-> TRUE]

IsNone(v) == DOMAIN v = {"py_none"}

\* bool(v) of a dict, a list or None: None, {} and [] are falsy.
Truthy(v) == ~IsNone(v) /\ DOMAIN v # {}

RECURSIVE SumSeq(_)
SumSeq(s) == IF s = << >> THEN 0 ELSE Head(s) + SumSeq(Tail(s))

SetMin(S) == CHOOSE m \in S : \A x \in S : m <= x

RECURSIVE SortSet(_)
SortSet(S) == IF S = {} THEN << >>
              ELSE <<SetMin(S)>> \o SortSet(S \ {SetMin(S)})

(***************************************************************************)
(* calculate_gex / calculate_dex                                           *)
(***************************************************************************)
ContractMultiplier == 100

\* `"greeks" in option and option["greeks"]`
has_greeks(option) == "greeks" \in DOMAIN option /\ Truthy(option.greeks)

\* The faults the try block of calculate_gex/calculate_dex can meet before the
\* DataFrame is built: options_data["options"]["option"] missing (or null:
\* the same except branch), or a kept entry without "strike" or "option_type".
options_raise(options_data) ==
    LET options == options_data.options IN
    \/ "option" \notin DOMAIN options
    \/ \E i \in DOMAIN options.option :
          /\ has_greeks(options.option[i])
          /\ \/ "strike" \notin DOMAIN options.option[i]
             \/ "option_type" \notin DOMAIN options.option[i]

gex_option_data(option) ==
    [strike        |-> option.strike,
     option_type   |-> option.option_type,
     gamma         |-> IF "gamma" \in DOMAIN option.greeks THEN option.greeks.gamma ELSE 0,
     open_interest |-> IF "open_interest" \in DOMAIN option THEN option.open_interest ELSE 0,
     volume        |-> IF "volume" \in DOMAIN option THEN option.volume ELSE 0]

dex_option_data(option) ==
    [strike        |-> option.strike,
     option_type   |-> option.option_type,
     delta         |-> IF "delta" \in DOMAIN option.greeks THEN option.greeks.delta ELSE 0,
     open_interest |-> IF "open_interest" \in DOMAIN option THEN option.open_interest ELSE 0]

StrictFilter(option) ==
    /\ has_greeks(option)
    /\ "gamma" \in DOMAIN option.greeks
    /\ "delta" \in DOMAIN option.greeks
    /\ "open_interest" \in DOMAIN option

greeks_filter(option) == has_greeks(option)

gex_options_list(option) ==
    LET kept == SelectSeq(option, greeks_filter)
    IN  [i \in 1..Len(kept) |-> gex_option_data(kept[i])]

dex_options_list(option) ==
    LET kept == SelectSeq(option, greeks_filter)
    IN  [i \in 1..Len(kept) |-> dex_option_data(kept[i])]

gex_sign_flat(x) == 1

gex_sign(x) == IF x = "call" THEN 1 ELSE -1

\* df["gex"] = df["gamma"] * df["open_interest"] * 100 * df["gex_sign"]
gex_frame(rows) ==
    [i \in DOMAIN rows |->
        [strike |-> rows[i].strike,
         gex    |-> rows[i].gamma * rows[i].open_interest * ContractMultiplier
                      * gex_sign(rows[i].option_type)]]

\* df["dex"] = df["delta"] * df["open_interest"] * 100
dex_frame(rows) ==
    [i \in DOMAIN rows |->
        [strike |-> rows[i].strike,
         dex    |-> rows[i].delta * rows[i].open_interest * ContractMultiplier]]

groupby_first(df, col) ==
    LET keys == SortSet({df[i].strike : i \in DOMAIN df})
    IN  [k \in 1..Len(keys) |->
            [strike |-> keys[k],
             value  |-> df[CHOOSE i \in DOMAIN df :
                              /\ df[i].strike = keys[k]
                              /\ \A j \in DOMAIN df :
                                    df[j].strike = keys[k] => i <= j][col]]]

groupby_unsorted(df, col) ==
    LET first == {i \in DOMAIN df :
                     \A j \in DOMAIN df : df[j].strike = df[i].strike => i <= j}
        order == SortSet(first)
    IN  [k \in 1..Len(order) |->
            [strike |-> df[order[k]].strike,
             value  |-> SumSeq([i \in DOMAIN df |->
                                   IF df[i].strike = df[order[k]].strike
                                   THEN df[i][col] ELSE 0])]]

\* df.groupby("strike")[col].sum().reset_index(): one row per distinct
\* strike, ascending by strike, holding the sum of the group's values.
groupby_strike_sum(df, col) ==
    LET keys == SortSet({df[i].strike : i \in DOMAIN df})
    IN  [k \in 1..Len(keys) |->
            [strike |-> keys[k],
             value  |-> SumSeq([i \in DOMAIN df |->
                                   IF df[i].strike = keys[k] THEN df[i][col] ELSE 0])]]

NeverEmpty(rows) == FALSE

\* `if not options_list`
no_valid_options(rows) == rows = << >>

\* `"options" not in options_data or not options_data["options"]`
no_options_data(options_data) ==
    "options" \notin DOMAIN options_data \/ ~Truthy(options_data.options)

\* The list the extraction loop has built when it ends (empty when the
\* function returns or raises before the loop ends).
gex_extracted(options_data) ==
    IF no_options_data(options_data) \/ options_raise(options_data) THEN << >>
    ELSE gex_options_list(options_data.options.option)

dex_extracted(options_data) ==
    IF no_options_data(options_data) \/ options_raise(options_data) THEN << >>
    ELSE dex_options_list(options_data.options.option)

calculate_gex(options_data) ==
    IF no_options_data(options_data)
    THEN [error |-> "No options data found"]
    ELSE IF options_raise(options_data)
    THEN [error |-> "exception"]
    ELSE LET rows == gex_extracted(options_data) IN
         IF no_valid_options(rows)
         THEN [error |-> "No valid options with Greeks found"]
         ELSE LET gex_by_strike == groupby_strike_sum(gex_frame(rows), "gex") IN
              [strikes    |-> [k \in DOMAIN gex_by_strike |-> gex_by_strike[k].strike],
               gex_values |-> [k \in DOMAIN gex_by_strike |-> gex_by_strike[k].value],
               total_gex  |-> SumSeq([k \in DOMAIN gex_by_strike |-> gex_by_strike[k].value])]

calculate_dex(options_data) ==
    IF no_options_data(options_data)
    THEN [error |-> "No options data found"]
    ELSE IF options_raise(options_data)
    THEN [error |-> "exception"]
    ELSE LET rows == dex_extracted(options_data) IN
         IF no_valid_options(rows)
         THEN [error |-> "No valid options with Greeks found"]
         ELSE LET dex_by_strike == groupby_strike_sum(dex_frame(rows), "dex") IN
              [strikes    |-> [k \in DOMAIN dex_by_strike |-> dex_by_strike[k].strike],
               dex_values |-> [k \in DOMAIN dex_by_strike |-> dex_by_strike[k].value],
               total_dex  |-> SumSeq([k \in DOMAIN dex_by_strike |-> dex_by_strike[k].value])]

(***************************************************************************)
(* What fetch_options_chain can return                                     *)
(***************************************************************************)
MaxChain == 3

\* Option entries as the brokerage sends them; greeks and open interest in
\* integer ticks.
OptionEntries ==
    << [strike |-> 100, option_type |-> "call", open_interest |-> 3, volume |-> 7,
        greeks |-> [gamma |-> 2, delta |-> 5]],
       [strike |-> 100, option_type |-> "put", open_interest |-> 2,
        greeks |-> [gamma |-> 3, delta |-> -4]],
       [strike |-> 105, option_type |-> "call", open_interest |-> 4,
        greeks |-> [delta |-> 6]],
       [strike |-> 105, option_type |-> "put",
        greeks |-> [gamma |-> 1, delta |-> -2]],
       [strike |-> 95, option_type |-> "call", open_interest |-> 0,
        greeks |-> [gamma |-> 2, delta |-> 5]],
       [strike |-> 95, option_type |-> "put", open_interest |-> 5,
        greeks |-> [gamma |-> 4]],
       [strike |-> 100, option_type |-> "call", open_interest |-> 9],
       [strike |-> 105, option_type |-> "put", open_interest |-> 6, greeks |-> << >>],
       [strike |-> 95, option_type |-> "put", open_interest |-> 8, greeks |-> None],
       [option_type |-> "call", open_interest |-> 1,
        greeks |-> [gamma |-> 1, delta |-> 1]] >>

RECURSIVE ChainsUpTo(_)
ChainsUpTo(n) ==
    IF n = 0 THEN {<< >>}
    ELSE LET shorter == ChainsUpTo(n - 1)
         IN  shorter \cup {Append(c, OptionEntries[e]) :
                             c \in {s \in shorter : Len(s) = n - 1},
                             e \in DOMAIN OptionEntries}

\* A well-formed payload: {"options": {"option": [...]}}.
ChainPayloads == {[options |-> [option |-> c]] : c \in ChainsUpTo(MaxChain)}

\* The other payloads: the {error} object of a failed fetch, and bodies
\* whose options object is null, empty, or holds no list under "option".
FaultPayloads ==
    << [error |-> "Failed to fetch options chain"],
       [options |-> None],
       [options |-> << >>],
       [options |-> [underlying |-> "SPY"]] >>

(***************************************************************************)
(* State machine: a request arrives with what the upstream fetch returns   *)
(* for it (Init), and its route handler answers it (one action per         *)
(* handler).                                                               *)
(***************************************************************************)
Idle ==
    /\ pc = "pending"
    /\ response = << >>
    /\ options_list = << >>
    /\ position = << >>
    /\ backtest_results = << >>
    /\ trades = << >>

ExposureOps == {"gex", "dex"}

InitExposure ==
    /\ Idle
    /\ \/ \E op \in ExposureOps, options_data \in ChainPayloads :
              request = [op |-> op, options_data |-> options_data]
       \/ \E op \in ExposureOps, k \in DOMAIN FaultPayloads :
              request = [op |-> op, options_data |-> FaultPayloads[k]]

\* GET /analysis/gex/{symbol}
get_gex_analysis ==
    /\ pc = "pending"
    /\ request.op = "gex"
    /\ options_list' = gex_extracted(request.options_data)
    /\ response' = calculate_gex(request.options_data)
    /\ pc' = "done"
    /\ UNCHANGED <<request, position, backtest_results, trades>>

\* GET /analysis/dex/{symbol}
get_dex_analysis ==
    /\ pc = "pending"
    /\ request.op = "dex"
    /\ options_list' = dex_extracted(request.options_data)
    /\ response' = calculate_dex(request.options_data)
    /\ pc' = "done"
    /\ UNCHANGED <<request, position, backtest_results, trades>>

NextExposure == get_gex_analysis \/ get_dex_analysis

SpecExposure == InitExposure /\ [][NextExposure]_vars

(***************************************************************************)
(* Exact arithmetic: a number is <<n, d>>, d > 0, in lowest terms.  A      *)
(* division by zero yields <<n, 0>>, which is no number: the handler that  *)
(* meets one raises ZeroDivisionError.                                     *)
(***************************************************************************)
Abs(x) == IF x < 0 THEN -x ELSE x

RECURSIVE GCD(_, _)
GCD(a, b) == IF b = 0 THEN a ELSE GCD(b, a % b)

Rat(n, d) ==
    IF d = 0 THEN <<n, 0>>
    ELSE LET g == GCD(Abs(n), Abs(d))
         IN  IF d < 0 THEN <<(-n) \div g, (-d) \div g>> ELSE <<n \div g, d \div g>>

RInt(n) == <<n, 1>>

RZero == <<0, 1>>

RNeg(a) == <<-a[1], a[2]>>

RAdd(a, b) ==
    LET g == GCD(a[2], b[2])
    IN  Rat(a[1] * (b[2] \div g) + b[1] * (a[2] \div g), (a[2] \div g) * b[2])

RSub(a, b) == RAdd(a, RNeg(b))

RMul(a, b) ==
    LET g1 == GCD(Abs(a[1]), b[2])
        g2 == GCD(Abs(b[1]), a[2])
    IN  Rat((a[1] \div g1) * (b[1] \div g2), (a[2] \div g2) * (b[2] \div g1))

RDiv(a, b) ==
    IF b[1] = 0 THEN <<a[1], 0>>
    ELSE RMul(a, IF b[1] < 0 THEN <<-b[2], -b[1]>> ELSE <<b[2], b[1]>>)

RLt(a, b) == a[1] * b[2] < b[1] * a[2]

RLe(a, b) == a[1] * b[2] <= b[1] * a[2]

RAbs(a) == <<Abs(a[1]), a[2]>>

RMax(a, b) == IF RLt(a, b) THEN b ELSE a

RMin(a, b) == IF RLt(b, a) THEN b ELSE a

IsNumber(a) == a[2] # 0

(***************************************************************************)
(* calculate_strategy_pnl                                                  *)
(***************************************************************************)
\* dict.get(key, default)
Get(d, key, default) == IF key \in DOMAIN d THEN d[key] ELSE default

price_points == 50

DefaultRangePct == 20

\* np.linspace(start, stop, num): start + i * step, step = (stop - start) / (num - 1)
linspace(start, stop, num) ==
    LET step == RDiv(RSub(stop, start), RInt(num - 1))
    IN  [i \in 1..num |-> RAdd(start, RMul(RInt(i - 1), step))]

option_value_swapped(option_type, strike, underlying) ==
    IF option_type = "call" THEN RMax(RZero, RSub(strike, underlying))
    ELSE IF option_type = "put" THEN RMax(RZero, RSub(underlying, strike))
    ELSE RZero

option_value_at_expiry(option_type, strike, underlying) ==
    IF option_type = "call" THEN RMax(RZero, RSub(underlying, strike))
    ELSE IF option_type = "put" THEN RMax(RZero, RSub(strike, underlying))
    ELSE RZero

\* initial_cost += price * quantity * 100, over the legs
RECURSIVE initial_cost_of(_)
initial_cost_of(legs) ==
    IF legs = << >> THEN 0
    ELSE Get(Head(legs), "price", 0) * Get(Head(legs), "quantity", 0) * ContractMultiplier
           + initial_cost_of(Tail(legs))

\* total_pnl += value * quantity * 100, over the legs
RECURSIVE legs_value_at(_, _)
legs_value_at(legs, price) ==
    IF legs = << >> THEN RZero
    ELSE RAdd(RMul(option_value_at_expiry(Get(Head(legs), "option_type", ""),
                                          RInt(Get(Head(legs), "strike", 0)),
                                          price),
                   RInt(Get(Head(legs), "quantity", 0) * ContractMultiplier)),
              legs_value_at(Tail(legs), price))

pnl_curve_of(legs, prices) ==
    [i \in DOMAIN prices |->
        [price |-> prices[i],
         pnl   |-> RAdd(RInt(-initial_cost_of(legs)), legs_value_at(legs, prices[i]))]]

\* max(pnl_values), min(pnl_values)
SeqMax(s) == s[CHOOSE i \in DOMAIN s : \A j \in DOMAIN s : RLe(s[j], s[i])]

SeqMin(s) == s[CHOOSE i \in DOMAIN s : \A j \in DOMAIN s : RLe(s[i], s[j])]

\* The test of lines 704-705 on an adjacent pair of samples.
crosses_zero(pnl1, pnl2) ==
    \/ RLe(pnl1, RZero) /\ RLe(RZero, pnl2)
    \/ RLe(RZero, pnl1) /\ RLe(pnl2, RZero)

Unguarded(pnl1, pnl2) == TRUE

\* `if pnl2 - pnl1 != 0`
not_flat(pnl1, pnl2) == RSub(pnl2, pnl1) # RZero

interpolate_wrong_sign(p1, p2, pnl1, pnl2) ==
    RAdd(p1, RDiv(RMul(RSub(p2, p1), pnl1), RSub(pnl2, pnl1)))

\* breakeven_price = p1 + (p2 - p1) * (-pnl1) / (pnl2 - pnl1)
interpolate(p1, p2, pnl1, pnl2) ==
    RAdd(p1, RDiv(RMul(RSub(p2, p1), RNeg(pnl1)), RSub(pnl2, pnl1)))

\* The loop of lines 703-715 from index i (a Python index: the pair is
\* pnl_curve[i-1], pnl_curve[i], here elements i and i + 1).
RECURSIVE breakeven_scan(_, _)
breakeven_scan(pnl_curve, i) ==
    IF i >= Len(pnl_curve) THEN << >>
    ELSE LET p1 == pnl_curve[i].price
             p2 == pnl_curve[i + 1].price
             pnl1 == pnl_curve[i].pnl
             pnl2 == pnl_curve[i + 1].pnl
         IN  (IF crosses_zero(pnl1, pnl2) /\ not_flat(pnl1, pnl2)
              THEN <<interpolate(p1, p2, pnl1, pnl2)>>
              ELSE << >>)
             \o breakeven_scan(pnl_curve, i + 1)

\* `not strategy_type or not underlying_price or not legs`
missing_required(body) ==
    \/ Get(body, "strategy_type", "") = ""
    \/ Get(body, "underlying_price", 0) = 0
    \/ Get(body, "legs", << >>) = << >>

calculate_strategy_pnl_body(body) ==
    IF missing_required(body) THEN [error |-> "Missing required parameters"]
    ELSE LET underlying_price == RInt(body.underlying_price)
             price_range_pct == RInt(Get(body, "price_range_pct", DefaultRangePct))
             min_price == RMul(underlying_price,
                               RSub(RInt(1), RDiv(price_range_pct, RInt(100))))
             max_price == RMul(underlying_price,
                               RAdd(RInt(1), RDiv(price_range_pct, RInt(100))))
             prices == linspace(min_price, max_price, price_points)
             pnl_curve == pnl_curve_of(body.legs, prices)
             pnl_values == [i \in DOMAIN pnl_curve |-> pnl_curve[i].pnl]
             breakeven_points == breakeven_scan(pnl_curve, 1)
         IN  IF \E k \in DOMAIN breakeven_points : ~IsNumber(breakeven_points[k])
             THEN [http_500 |-> "float division by zero"]
             ELSE [strategy_type    |-> body.strategy_type,
                   underlying_price |-> body.underlying_price,
                   pnl_curve        |-> pnl_curve,
                   max_profit       |-> SeqMax(pnl_values),
                   max_loss         |-> SeqMin(pnl_values),
                   breakeven_points |-> breakeven_points,
                   initial_cost     |-> RInt(initial_cost_of(body.legs))]

(***************************************************************************)
(* Requests to POST /calculate-strategy-pnl                                *)
(***************************************************************************)
MaxLegs == 2

Legs ==
    << [option_type |-> "call", strike |-> 100, quantity |-> 1, price |-> 2],
       [option_type |-> "call", strike |-> 103, quantity |-> 2, price |-> 2],
       [option_type |-> "call", strike |-> 110, quantity |-> -1, price |-> 1],
       [option_type |-> "put", strike |-> 100, quantity |-> 1, price |-> 3],
       [option_type |-> "call", strike |-> 100, quantity |-> 1, price |-> 0],
       [option_type |-> "call", strike |-> 100, quantity |-> 1, price |-> 10],
       [option_type |-> "put", strike |-> 90, quantity |-> -1] >>

RECURSIVE LegListsUpTo(_)
LegListsUpTo(n) ==
    IF n = 0 THEN {<< >>}
    ELSE LET shorter == LegListsUpTo(n - 1)
         IN  shorter \cup {Append(l, Legs[e]) :
                             l \in {s \in shorter : Len(s) = n - 1},
                             e \in DOMAIN Legs}

UnderlyingPrices == {100, 245, -100}

RangePcts == {20, 100, 0, -20}

\* Bodies with every field present, and bodies lacking a field or holding a
\* falsy one.
PnlBodies ==
    {[strategy_type |-> "custom", underlying_price |-> u, price_range_pct |-> r, legs |-> l] :
        u \in UnderlyingPrices \cup {0}, r \in RangePcts, l \in LegListsUpTo(MaxLegs)}
    \cup {[strategy_type |-> "custom", underlying_price |-> u, legs |-> <<Legs[e]>>] :
            u \in UnderlyingPrices, e \in DOMAIN Legs}
    \cup {[strategy_type |-> t, underlying_price |-> u, legs |-> <<Legs[1]>>] :
            t \in {"", "custom"}, u \in UnderlyingPrices}
    \cup {[underlying_price |-> 100, legs |-> <<Legs[1]>>],
          [strategy_type |-> "custom", legs |-> <<Legs[1]>>],
          [strategy_type |-> "custom", underlying_price |-> 100]}

InitPnl ==
    /\ Idle
    /\ \E body \in PnlBodies : request = [op |-> "pnl", body |-> body]

\* POST /calculate-strategy-pnl
calculate_strategy_pnl ==
    /\ pc = "pending"
    /\ request.op = "pnl"
    /\ response' = calculate_strategy_pnl_body(request.body)
    /\ pc' = "done"
    /\ UNCHANGED <<request, options_list, position, backtest_results, trades>>

NextPnl == calculate_strategy_pnl

SpecPnl == InitPnl /\ [][NextPnl]_vars

(***************************************************************************)
(* run_backtest                                                            *)
(***************************************************************************)
\* get_strategies(): the fixed catalog (id, name); kind records the tests of
\* run_backtest on the name ("Covered Call", "Iron Condor", "Bull" in name,
\* "Bear" in name).
Strategies ==
    << [id |-> "covered-call",     name |-> "Covered Call",     kind |-> "covered_call"],
       [id |-> "cash-secured-put", name |-> "Cash-Secured Put", kind |-> "plain"],
       [id |-> "iron-condor",      name |-> "Iron Condor",      kind |-> "iron_condor"],
       [id |-> "bull-call-spread", name |-> "Bull Call Spread", kind |-> "bull"],
       [id |-> "bear-put-spread",  name |-> "Bear Put Spread",  kind |-> "bear"],
       [id |-> "calendar-spread",  name |-> "Calendar Spread",  kind |-> "plain"],
       [id |-> "butterfly-spread", name |-> "Butterfly Spread", kind |-> "plain"],
       [id |-> "straddle",         name |-> "Straddle",         kind |-> "plain"],
       [id |-> "strangle",         name |-> "Strangle",         kind |-> "plain"],
       [id |-> "diagonal-spread",  name |-> "Diagonal Spread",  kind |-> "plain"] >>

\* next((s for s in strategies if s["id"] == strategy_id), None), as an index (0: None)
find_strategy(strategy_id) ==
    IF \E k \in DOMAIN Strategies : Strategies[k].id = strategy_id
    THEN CHOOSE k \in DOMAIN Strategies :
            /\ Strategies[k].id = strategy_id
            /\ \A j \in DOMAIN Strategies : Strategies[j].id = strategy_id => k <= j
    ELSE 0

DefaultPositionSize == 100

PremiumCycle == 30

\* int(x) of n/d: truncation towards zero
IntTrunc(n, d) == IF (n < 0) = (d < 0) THEN Abs(n) \div Abs(d) ELSE -(Abs(n) \div Abs(d))

position_size_rounded_up(capital, buy_price) ==
    IF buy_price * DefaultPositionSize > capital
    THEN IntTrunc(capital, buy_price) + 1
    ELSE DefaultPositionSize

\* lines 482-488: 100 shares, or what the capital buys when 100 cost more
position_size_of(capital, buy_price) ==
    IF buy_price * DefaultPositionSize > capital
    THEN IntTrunc(capital, buy_price)
    ELSE DefaultPositionSize

\* premium = close * 0.02 * position_size
premium_of(close, position_size) == Rat(close * 2 * position_size, 100)

\* The Python indices of the premium days: i in range(1, len(df)), i % 30 == 0.
premium_days(n) == [k \in 1..((n - 1) \div PremiumCycle) |-> PremiumCycle * k]

\* capital after the first k premiums (closes is 1-based: index i is closes[i + 1])
RECURSIVE cash_after(_, _, _, _)
cash_after(cash, closes, position_size, k) ==
    IF k = 0 THEN cash
    ELSE RAdd(cash_after(cash, closes, position_size, k - 1),
              premium_of(closes[premium_days(Len(closes))[k] + 1], position_size))

covered_call(initial_capital, day) ==
    LET closes == [i \in DOMAIN day |-> day[i].close]
        buy_price == closes[1]
        position_size == position_size_of(initial_capital, buy_price)
        investment == buy_price * position_size
        cash == RInt(initial_capital - investment)
        days == premium_days(Len(closes))
        capital == cash_after(cash, closes, position_size, Len(days))
        final_stock_value == closes[Len(closes)] * position_size
    IN  [position_size |-> position_size,
         cash          |-> cash,
         trade_history |->
            [k \in DOMAIN days |->
                [date    |-> day[days[k] + 1].date,
                 action  |-> "Sell Call",
                 price   |-> closes[days[k] + 1],
                 premium |-> premium_of(closes[days[k] + 1], position_size),
                 capital |-> RAdd(cash_after(cash, closes, position_size, k),
                                  RInt(closes[days[k] + 1] * position_size))]],
         final_capital |-> RAdd(capital, RInt(final_stock_value))]

\* The window starts of the Iron Condor loop: i in range(0, len(df) - 30, 30)
\* with i + 30 < len(df).
condor_starts(n) ==
    LET count == IF n - PremiumCycle <= 0 THEN 0
                 ELSE ((n - PremiumCycle - 1) \div PremiumCycle) + 1
    IN  [k \in 1..count |-> PremiumCycle * (k - 1)]

condor_profit_inclusive(capital, entry_price, exit_price) ==
    LET price_change_pct == Rat((exit_price - entry_price) * 100, entry_price)
    IN  IF RLe(RAbs(price_change_pct), RInt(5))
        THEN RMul(capital, Rat(3, 100))
        ELSE RNeg(RMul(capital, Rat(5, 100)))

\* profit of one cycle: 3% of capital when |price change| < 5%, else -5%
condor_profit(capital, entry_price, exit_price) ==
    LET price_change_pct == Rat((exit_price - entry_price) * 100, entry_price)
    IN  IF RLt(RAbs(price_change_pct), RInt(5))
        THEN RMul(capital, Rat(3, 100))
        ELSE RNeg(RMul(capital, Rat(5, 100)))

RECURSIVE condor_capital(_, _, _)
condor_capital(initial_capital, closes, k) ==
    IF k = 0 THEN RInt(initial_capital)
    ELSE LET before == condor_capital(initial_capital, closes, k - 1)
             i == condor_starts(Len(closes))[k]
         IN  RAdd(before, condor_profit(before, closes[i + 1], closes[i + PremiumCycle + 1]))

iron_condor(initial_capital, day) ==
    LET closes == [i \in DOMAIN day |-> day[i].close]
        starts == condor_starts(Len(closes))
    IN  [trade_history |->
            [k \in DOMAIN starts |->
                [date        |-> day[starts[k] + PremiumCycle + 1].date,
                 action      |-> "Iron Condor Cycle",
                 entry_price |-> closes[starts[k] + 1],
                 exit_price  |-> closes[starts[k] + PremiumCycle + 1],
                 profit      |-> RSub(condor_capital(initial_capital, closes, k),
                                      condor_capital(initial_capital, closes, k - 1)),
                 capital     |-> condor_capital(initial_capital, closes, k)]],
         final_capital |-> condor_capital(initial_capital, closes, Len(starts))]

\* The default branch: buy and hold, x1.2 for a "Bull" name, x0.8 for a "Bear" one.
buy_and_hold(initial_capital, day, kind) ==
    LET buy_price == day[1].close
        sell_price == day[Len(day)].close
        returns == Rat(sell_price - buy_price, buy_price)
        pnl == RMul(RMul(RInt(initial_capital), returns),
                    IF kind = "bull" THEN Rat(12, 10)
                    ELSE IF kind = "bear" THEN Rat(8, 10) ELSE RInt(1))
        final_capital == RAdd(RInt(initial_capital), pnl)
    IN  [trade_history |->
            << [date |-> day[1].date, action |-> "Entry", price |-> buy_price,
                capital |-> RInt(initial_capital)],
               [date |-> day[Len(day)].date, action |-> "Exit", price |-> sell_price,
                capital |-> final_capital] >>,
         final_capital |-> final_capital]

\* What the DataFrame construction and df["close"] need (lines 462-466).
history_raises(history) ==
    \/ "day" \notin DOMAIN history
    \/ history.day = << >>
    \/ \E i \in DOMAIN history.day : "close" \notin DOMAIN history.day[i]

\* The body returned by run_backtest, and whether it was inserted into
\* db.backtest_results.  sharpe_ratio and max_drawdown_pct (a square root and
\* a standard deviation) are left out of the metrics: they feed nothing else.
\* initial_capital is positive in every request of the model.
run_backtest_outcome(strategy_id, initial_capital, market_data) ==
    IF "error" \in DOMAIN market_data
    THEN [body |-> [error |-> market_data.error], inserted |-> FALSE]
    ELSE IF "history" \notin DOMAIN market_data \/ ~Truthy(market_data.history)
    THEN [body |-> [error |-> "No historical data available for backtest period"],
          inserted |-> FALSE]
    ELSE IF history_raises(market_data.history)
    THEN [body |-> [http_500 |-> "exception"], inserted |-> FALSE]
    ELSE IF find_strategy(strategy_id) = 0
    THEN [body |-> [error |-> "Strategy not found"], inserted |-> FALSE]
    ELSE LET day == market_data.history.day
             strategy == Strategies[find_strategy(strategy_id)]
             sim == IF strategy.name = "Covered Call"
                    THEN covered_call(initial_capital, day)
                    ELSE IF strategy.name = "Iron Condor"
                    THEN iron_condor(initial_capital, day)
                    ELSE buy_and_hold(initial_capital, day, strategy.kind)
             total_return == RMul(RDiv(RSub(sim.final_capital, RInt(initial_capital)),
                                       RInt(initial_capital)),
                                  RInt(100))
         IN  [body |->
                 [strategy_id     |-> strategy_id,
                  strategy_name   |-> strategy.name,
                  initial_capital |-> RInt(initial_capital),
                  final_capital   |-> sim.final_capital,
                  trade_history   |-> sim.trade_history,
                  metrics         |->
                     [total_return_pct      |-> total_return,
                      annualized_return_pct |-> RMul(total_return, Rat(365, Len(day)))],
                  price_history   |->
                     [i \in DOMAIN day |-> [date |-> day[i].date, price |-> day[i].close]]],
              inserted |-> TRUE]

\* The locals of the Covered Call branch once the shares are bought (lines
\* 482-490): position_size, and capital after "capital -= investment".
covered_call_position(strategy_id, initial_capital, market_data) ==
    IF /\ run_backtest_outcome(strategy_id, initial_capital, market_data).inserted
       /\ Strategies[find_strategy(strategy_id)].name = "Covered Call"
    THEN LET sim == covered_call(initial_capital, market_data.history.day)
         IN  [position_size |-> sim.position_size, capital |-> sim.cash]
    ELSE << >>

(***************************************************************************)
(* Requests to POST /backtest/{strategy_id} and what fetch_market_data     *)
(* returns for them                                                        *)
(***************************************************************************)
MaxDays == 61

DayCounts == {1, 2, 30, 31, MaxDays}

FirstCloses == {100, 150, 600, 1000}

\* The change of the close per day, and a dip on every other day.
Slopes == {-1, 0, 1, 3}

Dips == {0, 5}

\* A series of daily closes: first + slope x day, less the dip on even days.
History(first, slope, dip, n) ==
    [i \in 1..n |->
        [date  |-> i,
         close |-> first + slope * (i - 1) - (IF i % 2 = 0 THEN dip ELSE 0)]]

HistoryPayloads ==
    {[history |-> [day |-> History(first, slope, dip, n)]] :
        first \in FirstCloses, slope \in Slopes, dip \in Dips, n \in DayCounts}

MarketFaults ==
    << [error |-> "Failed to fetch market data"],
       << >>,
       [history |-> None],
       [history |-> [day |-> << >>]],
       [history |-> [symbol |-> "SPY"]],
       [history |-> [day |-> << [date |-> 1] >>]] >>

StrategyIds ==
    {"covered-call", "iron-condor", "bull-call-spread", "bear-put-spread", "straddle",
     "no-such-strategy"}

InitialCapitals == {50, 100, 250, 10000, 20000}

InitBacktest ==
    /\ Idle
    /\ \E strategy_id \in StrategyIds, initial_capital \in InitialCapitals :
          \/ \E market_data \in HistoryPayloads :
                request = [op |-> "backtest", strategy_id |-> strategy_id,
                           initial_capital |-> initial_capital,
                           market_data |-> market_data]
          \/ \E k \in DOMAIN MarketFaults :
                request = [op |-> "backtest", strategy_id |-> strategy_id,
                           initial_capital |-> initial_capital,
                           market_data |-> MarketFaults[k]]

\* POST /backtest/{strategy_id}
run_backtest ==
    /\ pc = "pending"
    /\ request.op = "backtest"
    /\ LET outcome == run_backtest_outcome(request.strategy_id, request.initial_capital,
                                           request.market_data)
       IN  /\ response' = outcome.body
           /\ backtest_results' = IF outcome.inserted
                                  THEN Append(backtest_results, outcome.body)
                                  ELSE backtest_results
    /\ position' = covered_call_position(request.strategy_id, request.initial_capital,
                                         request.market_data)
    /\ pc' = "done"
    /\ UNCHANGED <<request, options_list, trades>>

NextBacktest == run_backtest

SpecBacktest == InitBacktest /\ [][NextBacktest]_vars

(***************************************************************************)
(* Concurrent requests: several run_backtest and submit_trade requests are *)
(* in flight on the event loop; a handler runs from one await to the next, *)
(* and the handlers interleave at their awaits.  Here request, response,   *)
(* pc and position hold one value per request.                             *)
(***************************************************************************)
MaxRequests == 3

Requests == 1..MaxRequests

\* lines 738-743: strategy_id, symbol or legs absent or empty
trade_missing_required(body) ==
    \/ "strategy_id" \notin DOMAIN body \/ body.strategy_id = ""
    \/ "symbol" \notin DOMAIN body \/ body.symbol = ""
    \/ "legs" \notin DOMAIN body \/ body.legs = << >>

\* lines 746-753: the trade record; id_ stands for the fresh uuid4, and
\* created_at (a timestamp) is left out.
trade_of(body, id_) ==
    [id          |-> id_,
     strategy_id |-> body.strategy_id,
     symbol      |-> body.symbol,
     legs        |-> body.legs,
     status      |-> "simulated"]

insert_one_replacing(collection, document, oid) ==
    << [_id |-> oid] @@ document >>

\* collection.insert_one(document): the document gets a fresh _id and is
\* appended to the collection.
insert_one(collection, document, oid) ==
    Append(collection, [_id |-> oid] @@ document)

\* The requests in flight are drawn from these.
RequestKinds ==
    << [op |-> "backtest", strategy_id |-> "covered-call", initial_capital |-> 250,
        market_data |-> [history |-> [day |-> History(100, 1, 0, 2)]]],
       [op |-> "backtest", strategy_id |-> "no-such-strategy", initial_capital |-> 250,
        market_data |-> [history |-> [day |-> History(100, 1, 0, 2)]]],
       [op |-> "backtest", strategy_id |-> "iron-condor", initial_capital |-> 250,
        market_data |-> [error |-> "Failed to fetch market data"]],
       [op |-> "backtest", strategy_id |-> "covered-call", initial_capital |-> 250,
        market_data |-> [history |-> [day |-> << >>]]],
       [op |-> "trade",
        body |-> [strategy_id |-> "covered-call", symbol |-> "SPY",
                  legs |-> << Legs[1] >>]],
       [op |-> "trade",
        body |-> [strategy_id |-> "covered-call", legs |-> << Legs[1] >>]] >>

InitConcurrent ==
    /\ \E kind \in [Requests -> DOMAIN RequestKinds] :
          request = [p \in Requests |-> RequestKinds[kind[p]]]
    /\ response = [p \in Requests |-> << >>]
    /\ pc = [p \in Requests |-> "pending"]
    /\ position = [p \in Requests |-> << >>]
    /\ options_list = << >>
    /\ backtest_results = << >>
    /\ trades = << >>

\* run_backtest up to "await fetch_market_data(...)" (line 450).
run_backtest_fetch(p) ==
    /\ pc[p] = "pending"
    /\ request[p].op = "backtest"
    /\ pc' = [pc EXCEPT ![p] = "fetched"]
    /\ UNCHANGED <<request, response, options_list, position, backtest_results, trades>>

\* run_backtest from the fetched payload to an early return, or to
\* "await db.backtest_results.insert_one(result)" (lines 452-614).
run_backtest_compute(p) ==
    /\ pc[p] = "fetched"
    /\ LET outcome == run_backtest_outcome(request[p].strategy_id,
                                           request[p].initial_capital,
                                           request[p].market_data)
       IN  IF outcome.inserted
           THEN /\ pc' = [pc EXCEPT ![p] = "inserting"]
                /\ position' = [position EXCEPT ![p] =
                                    covered_call_position(request[p].strategy_id,
                                                          request[p].initial_capital,
                                                          request[p].market_data)]
                /\ UNCHANGED response
           ELSE /\ pc' = [pc EXCEPT ![p] = "done"]
                /\ response' = [response EXCEPT ![p] = outcome.body]
                /\ UNCHANGED position
    /\ UNCHANGED <<request, options_list, backtest_results, trades>>

\* The insert completes and run_backtest returns result (lines 614-616).
run_backtest_insert(p) ==
    /\ pc[p] = "inserting"
    /\ request[p].op = "backtest"
    /\ LET result == run_backtest_outcome(request[p].strategy_id,
                                          request[p].initial_capital,
                                          request[p].market_data).body
       IN  /\ backtest_results' = insert_one(backtest_results, result, p)
           /\ response' = [response EXCEPT ![p] = [_id |-> p] @@ result]
    /\ pc' = [pc EXCEPT ![p] = "done"]
    /\ UNCHANGED <<request, options_list, position, trades>>

\* submit_trade up to the early return, or to "await
\* db.trades.insert_one(trade)" (lines 737-756).
submit_trade_validate(p) ==
    /\ pc[p] = "pending"
    /\ request[p].op = "trade"
    /\ IF trade_missing_required(request[p].body)
       THEN /\ pc' = [pc EXCEPT ![p] = "done"]
            /\ response' = [response EXCEPT ![p] =
                                [error |-> "Missing required parameters"]]
       ELSE /\ pc' = [pc EXCEPT ![p] = "inserting"]
            /\ UNCHANGED response
    /\ UNCHANGED <<request, options_list, position, backtest_results, trades>>

\* The insert completes and submit_trade returns the trade (lines 756-761).
submit_trade_insert(p) ==
    /\ pc[p] = "inserting"
    /\ request[p].op = "trade"
    /\ trades' = insert_one(trades, trade_of(request[p].body, p), p)
    /\ response' = [response EXCEPT ![p] = [_id |-> p] @@ trade_of(request[p].body, p)]
    /\ pc' = [pc EXCEPT ![p] = "done"]
    /\ UNCHANGED <<request, options_list, position, backtest_results>>

NextConcurrent ==
    \E p \in Requests :
        \/ run_backtest_fetch(p)
        \/ run_backtest_compute(p)
        \/ run_backtest_insert(p)
        \/ submit_trade_validate(p)
        \/ submit_trade_insert(p)

SpecConcurrent == InitConcurrent /\ [][NextConcurrent]_vars

(***************************************************************************)
(* Exposure claims (C1..C5), stated over the raw chain of the request      *)
(***************************************************************************)
Done == pc = "done"

IsError == "error" \in DOMAIN response

\* The raw option entries of the request ("options" -> "option"), if any.
RawChain ==
    LET d == request.options_data IN
    IF "options" \in DOMAIN d
    THEN IF (\E k \in DOMAIN d.options : TRUE) /\ "option" \in DOMAIN d.options
         THEN d.options.option ELSE << >>
    ELSE << >>

\* Entries carrying a non-empty greeks object.
GreekBearing ==
    {i \in DOMAIN RawChain :
        /\ "greeks" \in DOMAIN RawChain[i]
        /\ "py_none" \notin DOMAIN RawChain[i].greeks
        /\ \E k \in DOMAIN RawChain[i].greeks : TRUE}

\* A chain the extraction loop walks to its end.
WellFormed ==
    \A i \in GreekBearing : {"strike", "option_type"} \subseteq DOMAIN RawChain[i]

NeededGreek == IF request.op = "gex" THEN "gamma" ELSE "delta"

GreekOf(i) ==
    IF NeededGreek \in DOMAIN RawChain[i].greeks THEN RawChain[i].greeks[NeededGreek] ELSE 0

OpenInterestOf(i) ==
    IF "open_interest" \in DOMAIN RawChain[i] THEN RawChain[i].open_interest ELSE 0

ContractValue(i) ==
    IF request.op = "gex"
    THEN GreekOf(i) * OpenInterestOf(i) * 100
           * (CASE RawChain[i].option_type = "call" -> 1
                [] RawChain[i].option_type = "put" -> -1)
    ELSE GreekOf(i) * OpenInterestOf(i) * 100

\* The sum of the contract values of the entries in S.
RECURSIVE SumOver(_)
SumOver(S) ==
    IF S = {} THEN 0
    ELSE LET x == CHOOSE y \in S : TRUE IN ContractValue(x) + SumOver(S \ {x})

ReportedValues == IF request.op = "gex" THEN response.gex_values ELSE response.dex_values

ReportedTotal == IF request.op = "gex" THEN response.total_gex ELSE response.total_dex

AtStrike(s) == {i \in GreekBearing : RawChain[i].strike = s}

\* C1: in every non-error GEX/DEX result the total equals the sum of the
\* reported per-strike values, which equals the sum of the contract values of
\* all greeks-bearing entries, and each such entry's strike is reported
\* exactly once (no contract dropped or counted twice).
C1_TotalIsSumOfStrikes ==
    (Done /\ ~IsError) =>
        /\ ReportedTotal = SumSeq(ReportedValues)
        /\ SumSeq(ReportedValues) = SumOver(GreekBearing)
        /\ \A i \in GreekBearing :
              Cardinality({k \in DOMAIN response.strikes :
                              response.strikes[k] = RawChain[i].strike}) = 1

C1_Witness ==
    /\ Done /\ ~IsError
    /\ Len(response.strikes) >= 2
    /\ \E i, j \in GreekBearing :
          /\ i # j
          /\ RawChain[i].strike = RawChain[j].strike
          /\ ContractValue(i) # 0 /\ ContractValue(j) # 0

\* C2: the value reported at a strike is the sum, over the greeks-bearing
\* contracts at that strike, of gamma x open_interest x 100 x (+1 call, -1 put)
\* for GEX and of delta x open_interest x 100 (no sign flip) for DEX.
C2_PerStrikeFormula ==
    (Done /\ ~IsError) =>
        \A k \in DOMAIN response.strikes :
            ReportedValues[k] = SumOver(AtStrike(response.strikes[k]))

C2_Witness ==
    /\ Done /\ ~IsError
    /\ request.op = "gex"
    /\ \E k \in DOMAIN response.strikes :
          /\ ReportedValues[k] < 0
          /\ \E i, j \in AtStrike(response.strikes[k]) :
                /\ RawChain[i].option_type = "call" /\ ContractValue(i) > 0
                /\ RawChain[j].option_type = "put" /\ ContractValue(j) < 0

\* The greeks-bearing entries in chain order.
KeptOrder == SortSet(GreekBearing)

\* C3: the contracts handed to the aggregation are exactly the entries with a
\* non-empty greeks object, in order; entries without greeks (absent, empty
\* or null) are dropped without error, and a kept entry lacking the needed
\* greek or open_interest is kept with that field 0.
C3_GreeksFilter ==
    (Done /\ WellFormed) =>
        /\ Len(options_list) = Cardinality(GreekBearing)
        /\ \A j \in DOMAIN options_list :
              /\ options_list[j].strike = RawChain[KeptOrder[j]].strike
              /\ options_list[j][NeededGreek] = GreekOf(KeptOrder[j])
              /\ options_list[j].open_interest = OpenInterestOf(KeptOrder[j])
        /\ (GreekBearing # {}) => ~IsError

C3_Witness ==
    /\ Done /\ WellFormed /\ ~IsError
    /\ Cardinality(GreekBearing) < Len(RawChain)
    /\ \E i \in GreekBearing : NeededGreek \notin DOMAIN RawChain[i].greeks
    /\ \E i \in GreekBearing : "open_interest" \notin DOMAIN RawChain[i]

\* C4: in a non-error result the strikes are strictly ascending, they are
\* the distinct strikes of the greeks-bearing entries, the values list has the
\* same length, and a strike whose contracts all have open_interest 0 is
\* listed with value 0.
C4_StrikesAscending ==
    (Done /\ ~IsError) =>
        /\ \A k \in 1..(Len(response.strikes) - 1) :
              response.strikes[k] < response.strikes[k + 1]
        /\ Len(ReportedValues) = Len(response.strikes)
        /\ {response.strikes[k] : k \in DOMAIN response.strikes}
              = {RawChain[i].strike : i \in GreekBearing}
        /\ \A i \in GreekBearing :
              (\A j \in AtStrike(RawChain[i].strike) : OpenInterestOf(j) = 0)
                  => \E k \in DOMAIN response.strikes :
                        /\ response.strikes[k] = RawChain[i].strike
                        /\ ReportedValues[k] = 0

C4_Witness ==
    /\ Done /\ ~IsError
    /\ Len(response.strikes) = 3
    /\ \E i, j \in GreekBearing : i < j /\ RawChain[i].strike > RawChain[j].strike
    /\ \E i \in GreekBearing :
          /\ GreekOf(i) # 0
          /\ \A j \in AtStrike(RawChain[i].strike) :
                "open_interest" \in DOMAIN RawChain[j] /\ RawChain[j].open_interest = 0

\* C5: a payload with no option entries, or with none carrying a non-empty
\* greeks object, or an upstream {error} object, is answered with an {error}
\* body and nothing else (no strikes, values or total).
C5_NoValidContractsIsError ==
    (Done /\ GreekBearing = {}) => DOMAIN response = {"error"}

C5_Witness ==
    /\ Done
    /\ GreekBearing = {}
    /\ Len(RawChain) >= 2
    /\ IsError

(***************************************************************************)
(* Payoff-curve claims (C6..C9), stated over the request body              *)
(***************************************************************************)
\* The handler computed a curve.
PnlComputed == Done /\ request.op = "pnl" /\ "pnl_curve" \in DOMAIN response

ReqLegs == request.body.legs

LegField(leg, key) == IF key \in DOMAIN leg THEN leg[key] ELSE 0

\* max(0, p - strike) for a call, max(0, strike - p) for a put
Intrinsic(leg, p) ==
    LET d == CASE leg.option_type = "call" -> RSub(p, RInt(leg.strike))
               [] leg.option_type = "put" -> RSub(RInt(leg.strike), p)
    IN  IF d[1] > 0 THEN d ELSE RZero

ExpectedCost ==
    LET term(k) == LegField(ReqLegs[k], "price") * LegField(ReqLegs[k], "quantity") * 100
    IN  SumSeq([k \in DOMAIN ReqLegs |-> term(k)])

RECURSIVE ExpectedPayoff(_, _)
ExpectedPayoff(k, p) ==
    IF k = 0 THEN RZero
    ELSE RAdd(ExpectedPayoff(k - 1, p),
              RMul(Intrinsic(ReqLegs[k], p), RInt(LegField(ReqLegs[k], "quantity") * 100)))

ExpectedPnl(p) == RAdd(RInt(-ExpectedCost), ExpectedPayoff(Len(ReqLegs), p))

\* One leg: a long call, quantity 1.
SingleLongCall ==
    /\ Len(ReqLegs) = 1
    /\ ReqLegs[1].option_type = "call"
    /\ LegField(ReqLegs[1], "quantity") = 1

\* C6: at every sampled price p the reported pnl is
\* -initial_cost + sum over legs of intrinsic(leg, p) x quantity x 100, with
\* initial_cost = sum of price x quantity x 100; a single long call (K, c) has
\* pnl -100c at p <= K and 100(p - K) - 100c at p > K: -200 at 100 and 800 at
\* 110 for K = 100, c = 2.
C6_PnlFormula ==
    PnlComputed =>
        /\ response.initial_cost = RInt(ExpectedCost)
        /\ \A i \in DOMAIN response.pnl_curve :
              response.pnl_curve[i].pnl = ExpectedPnl(response.pnl_curve[i].price)
        /\ SingleLongCall =>
              LET K == ReqLegs[1].strike
                  c == LegField(ReqLegs[1], "price")
              IN  \A i \in DOMAIN response.pnl_curve :
                     LET p == response.pnl_curve[i].price
                         pnl == response.pnl_curve[i].pnl
                     IN  /\ RLe(p, RInt(K)) => pnl = RInt(-100 * c)
                         /\ RLt(RInt(K), p) =>
                               pnl = RSub(RMul(RInt(100), RSub(p, RInt(K))), RInt(100 * c))
                         /\ (K = 100 /\ c = 2 /\ p = RInt(100)) => pnl = RInt(-200)
                         /\ (K = 100 /\ c = 2 /\ p = RInt(110)) => pnl = RInt(800)

C6_Witness ==
    /\ PnlComputed
    /\ SingleLongCall
    /\ ReqLegs[1].strike = 100 /\ LegField(ReqLegs[1], "price") = 2
    /\ \E i, j \in DOMAIN response.pnl_curve :
          /\ response.pnl_curve[i].price = RInt(100)
          /\ response.pnl_curve[i].pnl = RInt(-200)
          /\ response.pnl_curve[j].price = RInt(110)
          /\ response.pnl_curve[j].pnl = RInt(800)

\* The adjacent pairs (j, j + 1) of the reported curve across which the P&L
\* changes sign or touches zero and is not flat.
CrossingPairs ==
    {j \in 1..(Len(response.pnl_curve) - 1) :
        LET pnl1 == response.pnl_curve[j].pnl
            pnl2 == response.pnl_curve[j + 1].pnl
        IN  /\ pnl1 # pnl2
            /\ \/ pnl1[1] <= 0 /\ pnl2[1] >= 0
               \/ pnl1[1] >= 0 /\ pnl2[1] <= 0}

CrossingOrder == SortSet(CrossingPairs)

\* C7: a request that passes validation is answered with a curve (no division
\* by zero); the breakeven entries are, in order, one per adjacent pair whose
\* P&L changes sign or touches zero with pnl1 # pnl2; each entry e satisfies
\* e = p1 + (p2 - p1)(-pnl1)/(pnl2 - pnl1) and lies between p1 and p2; a flat
\* pair yields no entry.
C7_BreakevenPerCrossing ==
    (Done /\ request.op = "pnl" /\ ~IsError) =>
        /\ "breakeven_points" \in DOMAIN response
        /\ Len(response.breakeven_points) = Cardinality(CrossingPairs)
        /\ \A k \in DOMAIN response.breakeven_points :
              LET j == CrossingOrder[k]
                  e == response.breakeven_points[k]
                  p1 == response.pnl_curve[j].price
                  p2 == response.pnl_curve[j + 1].price
                  pnl1 == response.pnl_curve[j].pnl
                  pnl2 == response.pnl_curve[j + 1].pnl
              IN  /\ e[2] > 0
                  /\ RMul(RSub(e, p1), RSub(pnl2, pnl1)) = RMul(RSub(p2, p1), RNeg(pnl1))
                  /\ \/ RLe(p1, e) /\ RLe(e, p2)
                     \/ RLe(p2, e) /\ RLe(e, p1)

C7_Witness ==
    /\ PnlComputed
    /\ Len(response.breakeven_points) >= 1
    /\ \E j \in 1..(Len(response.pnl_curve) - 1) :
          /\ response.pnl_curve[j].pnl = RZero
          /\ response.pnl_curve[j + 1].pnl = RZero
    /\ \E j \in CrossingPairs : response.pnl_curve[j].pnl = RZero

ReqMinPrice ==
    Rat(request.body.underlying_price * (100 - Get(request.body, "price_range_pct", 20)), 100)

ReqMaxPrice ==
    Rat(request.body.underlying_price * (100 + Get(request.body, "price_range_pct", 20)), 100)

SamplingStep == RDiv(RSub(ReqMaxPrice, ReqMinPrice), RInt(49))

\* C8: for a single long call (quantity >= 1, strike K, premium c > 0) whose
\* breakeven K + c lies strictly inside the sampled range, some reported
\* breakeven point is within one sampling step, (max - min)/49, of K + c.
C8_LongCallBreakeven ==
    (/\ PnlComputed
     /\ Len(ReqLegs) = 1
     /\ ReqLegs[1].option_type = "call"
     /\ LegField(ReqLegs[1], "quantity") >= 1
     /\ LegField(ReqLegs[1], "price") > 0
     /\ RLt(ReqMinPrice, RInt(ReqLegs[1].strike + LegField(ReqLegs[1], "price")))
     /\ RLt(RInt(ReqLegs[1].strike + LegField(ReqLegs[1], "price")), ReqMaxPrice))
    => \E k \in DOMAIN response.breakeven_points :
          RLe(RAbs(RSub(response.breakeven_points[k],
                        RInt(ReqLegs[1].strike + LegField(ReqLegs[1], "price")))),
              SamplingStep)

C8_Witness ==
    /\ PnlComputed
    /\ SingleLongCall
    /\ ReqLegs[1].strike = 100 /\ LegField(ReqLegs[1], "price") = 2
    /\ request.body.underlying_price = 100
    /\ Get(request.body, "price_range_pct", 20) = 20
    /\ response.breakeven_points = <<RInt(102)>>

\* The request lacks strategy_type, or has underlying_price <= 0 or absent,
\* or has no legs.
InvalidRequest ==
    \/ "strategy_type" \notin DOMAIN request.body
    \/ "underlying_price" \notin DOMAIN request.body
    \/ request.body.underlying_price <= 0
    \/ "legs" \notin DOMAIN request.body
    \/ Len(request.body.legs) = 0

\* C9: a request without strategy_type, with underlying_price <= 0 (zero,
\* negative or absent) or with no legs is answered with the {error} payload
\* alone, and a curve is computed only when all three are valid.
C9_InvalidRequestIsError ==
    (Done /\ request.op = "pnl") =>
        /\ InvalidRequest => DOMAIN response = {"error"}
        /\ "pnl_curve" \in DOMAIN response => ~InvalidRequest

(***************************************************************************)
(* Backtest claims (C10), stated over the request and the fetched history  *)
(***************************************************************************)
\* A Covered Call backtest that ran to its end.
CoveredCallRan ==
    /\ Done
    /\ request.op = "backtest"
    /\ request.strategy_id = "covered-call"
    /\ "final_capital" \in DOMAIN response

ReqCloses ==
    [i \in DOMAIN request.market_data.history.day |->
        request.market_data.history.day[i].close]

\* At least two closes, each above the one before.
RisingSeries ==
    /\ Len(ReqCloses) >= 2
    /\ \A i \in 1..(Len(ReqCloses) - 1) : ReqCloses[i] < ReqCloses[i + 1]

\* C10 as stated: for a covered-call backtest over any rising series of daily
\* closes and any positive initial_capital, final_capital exceeds
\* initial_capital.
C10_RisingSeriesGains ==
    (CoveredCallRan /\ RisingSeries /\ request.initial_capital > 0)
        => RLt(RInt(request.initial_capital), response.final_capital)

\* C10 amended: over a rising series, final_capital exceeds initial_capital
\* when initial_capital is at least the first close (a whole share is
\* bought), and equals initial_capital when it is below the first close (no
\* share is bought, no premium is collected).
C10_RisingSeriesGainsIfAffordable ==
    (CoveredCallRan /\ RisingSeries /\ request.initial_capital > 0) =>
        /\ request.initial_capital >= ReqCloses[1]
              => RLt(RInt(request.initial_capital), response.final_capital)
        /\ request.initial_capital < ReqCloses[1]
              => response.final_capital = RInt(request.initial_capital)

C10_Witness ==
    /\ CoveredCallRan
    /\ RisingSeries
    /\ request.initial_capital = 250
    /\ ReqCloses[1] = 100
    /\ Len(response.trade_history) = 2
    /\ RLt(RInt(request.initial_capital), response.final_capital)
    /\ Len(backtest_results) = 1

(***************************************************************************)
(* Covered Call position (C11)                                             *)
(***************************************************************************)
\* The whole shares initial_capital buys at the first close.
AffordableShares == request.initial_capital \div ReqCloses[1]

RECURSIVE PremiumSum(_)
PremiumSum(k) ==
    IF k = 0 THEN RZero
    ELSE RAdd(PremiumSum(k - 1), response.trade_history[k].premium)

\* The premiums of the ledger, added up.
PremiumsCollected == PremiumSum(Len(response.trade_history))

\* cash left after the purchase, plus premiums, plus shares x last close
CashPlusShares ==
    RAdd(RAdd(position.capital, PremiumsCollected),
         RInt(position.position_size * ReqCloses[Len(ReqCloses)]))

\* C11 as stated: the Covered Call branch buys floor(initial_capital /
\* first_close) shares at the first close, the cash left after the purchase
\* is never negative, and final_capital is the remaining cash with the
\* collected premiums plus shares x last close.
C11_BuysAllAffordableShares ==
    CoveredCallRan =>
        /\ position.position_size = AffordableShares
        /\ RLe(RZero, position.capital)
        /\ response.final_capital = CashPlusShares

\* C11 amended: the shares bought are floor(initial_capital / first_close)
\* capped at 100 (100 shares whenever 100 are affordable), the cash left
\* after the purchase is never negative, and final_capital is the remaining
\* cash with the collected premiums plus shares x last close.
C11_BuysAffordableSharesUpTo100 ==
    CoveredCallRan =>
        /\ position.position_size =
              (IF AffordableShares < DefaultPositionSize
               THEN AffordableShares ELSE DefaultPositionSize)
        /\ position.capital = RInt(request.initial_capital
                                     - position.position_size * ReqCloses[1])
        /\ RLe(RZero, position.capital)
        /\ response.final_capital = CashPlusShares

\* 200 shares are affordable, 100 are bought, and two premiums are collected.
C11_Witness ==
    /\ CoveredCallRan
    /\ request.initial_capital = 20000
    /\ ReqCloses[1] = 100
    /\ AffordableShares = 200
    /\ position.position_size = 100
    /\ position.capital = RInt(10000)
    /\ Len(response.trade_history) = 2
    /\ RLt(RZero, PremiumsCollected)

(***************************************************************************)
(* Iron Condor windows (C12)                                               *)
(***************************************************************************)
\* An Iron Condor backtest that ran to its end.
IronCondorRan ==
    /\ Done
    /\ request.op = "backtest"
    /\ request.strategy_id = "iron-condor"
    /\ "final_capital" \in DOMAIN response

\* The 0-based first index of every window [i, i + 30] that fits in N closes.
WindowStarts ==
    {i \in 0..Len(ReqCloses) : i % 30 = 0 /\ i + 30 <= Len(ReqCloses) - 1}

\* Percentage change from the first to the last close of the window at i.
WindowChangePct(i) ==
    Rat((ReqCloses[i + 31] - ReqCloses[i + 1]) * 100, ReqCloses[i + 1])

WindowFactor(i) ==
    IF RLt(RAbs(WindowChangePct(i)), RInt(5)) THEN Rat(103, 100) ELSE Rat(95, 100)

\* Capital before the k-th ledger entry.
CapitalBefore(k) ==
    IF k = 1 THEN RInt(request.initial_capital)
    ELSE response.trade_history[k - 1].capital

\* C12: over N closes the Iron Condor windows are [i, i + 30] for i = 0, 30,
\* 60, ... with i + 30 <= N - 1; each window has one ledger entry, in order;
\* the capital after a window is the capital before it x 1.03 when the
\* first-to-last change of the window is below 5% in absolute value and
\* x 0.95 otherwise; final_capital is the capital of the last ledger entry,
\* and is initial_capital with an empty ledger when N <= 30.
C12_IronCondorWindows ==
    IronCondorRan =>
        LET ledger == response.trade_history
            day == request.market_data.history.day
        IN  /\ Len(ledger) = Cardinality(WindowStarts)
            /\ \A k \in DOMAIN ledger :
                  LET i == 30 * (k - 1)
                  IN  /\ i \in WindowStarts
                      /\ ledger[k].action = "Iron Condor Cycle"
                      /\ ledger[k].entry_price = ReqCloses[i + 1]
                      /\ ledger[k].exit_price = ReqCloses[i + 31]
                      /\ ledger[k].date = day[i + 31].date
                      /\ ledger[k].capital = RMul(CapitalBefore(k), WindowFactor(i))
                      /\ ledger[k].profit = RSub(ledger[k].capital, CapitalBefore(k))
            /\ response.final_capital =
                  (IF ledger = << >> THEN RInt(request.initial_capital)
                   ELSE ledger[Len(ledger)].capital)
            /\ Len(ReqCloses) <= 30 => ledger = << >>

\* Two windows over 61 closes: the first changes by exactly 5% (600 to 630,
\* a loss), the second by less (630 to 660, a gain).
C12_Witness ==
    /\ IronCondorRan
    /\ Len(ReqCloses) = 61
    /\ request.initial_capital = 10000
    /\ WindowChangePct(0) = RInt(5)
    /\ RLt(WindowChangePct(30), RInt(5))
    /\ Len(response.trade_history) = 2
    /\ response.trade_history[1].capital = RInt(9500)
    /\ response.trade_history[2].capital = RInt(9785)
    /\ response.final_capital = RInt(9785)

(***************************************************************************)
(* Errors and persistence of run_backtest (C13)                            *)
(***************************************************************************)
FetchFailed == "error" \in DOMAIN request.market_data

\* No history object, a null or empty one, or one with an empty list of days.
HistoryAbsentOrEmpty ==
    LET market_data == request.market_data
    IN  /\ ~FetchFailed
        /\ \/ "history" \notin DOMAIN market_data
           \/ ~Truthy(market_data.history)
           \/ /\ "day" \in DOMAIN market_data.history
              /\ market_data.history.day = << >>

UnknownStrategy == \A k \in DOMAIN Strategies : Strategies[k].id # request.strategy_id

\* C13: run_backtest returns the {error} payload and writes nothing to
\* backtest_results when the fetch returns an error, when the history is
\* absent or empty, or when strategy_id is not a catalog id; a result is
\* inserted only after a full computation, exactly once per successful
\* request.
C13_ErrorsWriteNothing ==
    request.op = "backtest" =>
        /\ ~Done => backtest_results = << >>
        /\ Done =>
              /\ (FetchFailed \/ HistoryAbsentOrEmpty \/ UnknownStrategy) =>
                    /\ DOMAIN response = {"error"}
                    /\ backtest_results = << >>
              /\ IF "final_capital" \in DOMAIN response
                 THEN backtest_results = << response >>
                 ELSE backtest_results = << >>

(***************************************************************************)
(* Malformed upstream payloads (C14)                                       *)
(***************************************************************************)
\* A fetched history that is absent, empty, without its list of days, or
\* with a day lacking its close.
MalformedMarketData ==
    LET market_data == request.market_data
    IN  /\ ~FetchFailed
        /\ \/ "history" \notin DOMAIN market_data
           \/ ~Truthy(market_data.history)
           \/ "day" \notin DOMAIN market_data.history
           \/ market_data.history.day = << >>
           \/ \E i \in DOMAIN market_data.history.day :
                 "close" \notin DOMAIN market_data.history.day[i]

\* A fetched chain that is absent, empty, without its list of options, or
\* with a greek-bearing entry lacking strike or option_type.
MalformedOptionsData ==
    LET options_data == request.options_data
    IN  /\ "error" \notin DOMAIN options_data
        /\ \/ "options" \notin DOMAIN options_data
           \/ ~Truthy(options_data.options)
           \/ "option" \notin DOMAIN options_data.options
           \/ options_data.options.option = << >>
           \/ ~WellFormed

\* C14: for every malformed or absent upstream payload the GEX, DEX and
\* backtest endpoints answer with the {error} JSON payload, never with an
\* HTTP 500.
C14_MalformedPayloadIsError ==
    Done =>
        /\ (request.op \in ExposureOps /\ MalformedOptionsData)
              => DOMAIN response = {"error"}
        /\ (request.op = "backtest" /\ MalformedMarketData)
              => DOMAIN response = {"error"}

(***************************************************************************)
(* Order of the breakeven points (C16)                                     *)
(***************************************************************************)
\* The sampled prices ascend: underlying_price and price_range_pct positive.
AscendingRange == RLt(ReqMinPrice, ReqMaxPrice)

\* C16: for an ascending price range breakeven_points is strictly
\* increasing, so no price is reported twice, also when the P&L is exactly
\* zero at an interior sample whose neighbours are non-zero.
C16_BreakevensStrictlyIncreasing ==
    (PnlComputed /\ AscendingRange) =>
        \A k \in 1..(Len(response.breakeven_points) - 1) :
            RLt(response.breakeven_points[k], response.breakeven_points[k + 1])

(***************************************************************************)
(* Concurrent requests (C15)                                               *)
(***************************************************************************)
\* Requests that ran to a result (run_backtest) or to a trade (submit_trade).
Succeeded(op) ==
    {p \in Requests :
        /\ request[p].op = op
        /\ pc[p] = "done"
        /\ "error" \notin DOMAIN response[p]
        /\ "http_500" \notin DOMAIN response[p]}

\* The records of a collection with the number of times each occurs.
BagOf(collection) ==
    [r \in {collection[i] : i \in DOMAIN collection} |->
        Cardinality({i \in DOMAIN collection : collection[i] = r})]

\* One record per request of S: what request p returned.
BagOfResponses(S) ==
    [r \in {response[p] : p \in S} |-> Cardinality({p \in S : response[p] = r})]

\* C15: whatever the interleaving of concurrent run_backtest and submit_trade
\* requests, each collection holds, as a multiset, exactly one record for
\* every request on it that succeeded (a trade has status "simulated") and
\* none for a request that failed or has not finished: no record of another
\* request is changed or removed, and the contents at the end are the same
\* for every interleaving.
C15_OneRecordPerSuccess ==
    /\ BagOf(backtest_results) = BagOfResponses(Succeeded("backtest"))
    /\ BagOf(trades) = BagOfResponses(Succeeded("trade"))
    /\ Len(backtest_results) = Cardinality(Succeeded("backtest"))
    /\ Len(trades) = Cardinality(Succeeded("trade"))
    /\ \A i \in DOMAIN trades : trades[i].status = "simulated"
    /\ \A i \in DOMAIN backtest_results :
          backtest_results[i] =
              [_id |-> backtest_results[i]._id] @@
                  run_backtest_outcome(request[backtest_results[i]._id].strategy_id,
                                       request[backtest_results[i]._id].initial_capital,
                                       request[backtest_results[i]._id].market_data).body

\* All requests have finished: two backtests whose results were inserted in
\* the reverse of their arrival order, and one trade.
C15_Witness ==
    /\ \A p \in Requests : pc[p] = "done"
    /\ Len(backtest_results) = 2
    /\ backtest_results[1]._id = 2
    /\ backtest_results[2]._id = 1
    /\ Len(trades) = 1
    /\ trades[1].status = "simulated"

====
